---------------------------- MODULE Spec2Model ----------------------------
(***************************************************************************)
(* Model of src/src/session.rs of rust-secure-session: the Session map,    *)
(* the SessionTransport envelope and ChaCha20Poly1305SessionManager's      *)
(* serialize / deserialize over the wire format                            *)
(*      nonce (8) || tag (16) || ciphertext (16 padding + bincode).        *)
(*                                                                         *)
(* Bytes are the integers 0..255 and byte strings are sequences, with the  *)
(* widths of the source (8, 16, 24, 40, 32).  Rust indexes from 0, the     *)
(* sequences here from 1: bytes[i] of the source is bytes[i + 1] here.     *)
(*                                                                         *)
(* The crates the source calls are outside the repository and are modelled *)
(* by what they do, at reduced strength:                                   *)
(*   - bincode: u64 little-endian length prefixes, one byte Option tag,    *)
(*     map entries in the HashMap's iteration order (any order);           *)
(*   - chrono + serde: a timestamp travels as a string; the model's        *)
(*     timestamps are small naturals written in decimal digits;            *)
(*   - rust-crypto ChaCha20Poly1305: a stream cipher XORed over the        *)
(*     plaintext and a one-time polynomial MAC over the ciphertext and its *)
(*     length, evaluated at a point r and masked by s, both derived from   *)
(*     (key, nonce); the field is a 15-bit prime instead of 2^130 - 5;     *)
(*   - ring SystemRandom: fill either fails or returns any bytes.          *)
(***************************************************************************)
EXTENDS Integers, Sequences, FiniteSets, TLC

VARIABLES
    aead_key,   \* ChaCha20Poly1305SessionManager.aead_key
    cookie,     \* the blob the client holds, with what it was made from
    last,       \* the call the sequential caller has just made, and its result
    calls,      \* the frames of the callers sharing the manager concurrently
    session,    \* a Session under insert_bytes / remove_bytes / clear
    log,        \* the operations applied to session so far
    ret         \* what the last operation on session returned

vars == <<aead_key, cookie, last, calls, session, log, ret>>

----------------------------------------------------------------------------
(* Program constants.                                                      *)

NONCE_LEN == 8
TAG_LEN == 16
PADDING_LEN == 16
HEADER_LEN == 24
MIN_LEN == 40
KEY_LEN == 32

(* Bounds of the model.                                                    *)

NumNonces == 2      \* distinct values the randomness source returns for a nonce
NumPaddings == 2    \* distinct values it returns for the padding
MaxArbitrary == 42  \* longest input of arbitrary content handed to deserialize
MaxOps == 3         \* operations applied to one Session
NumCallers == 2     \* callers sharing one manager

----------------------------------------------------------------------------
(* Bytes and byte strings.                                                 *)

Byte == 0..255

RECURSIVE XorBits(_, _, _)
XorBits(a, b, n) ==
    IF n = 0 THEN 0
    ELSE (((a % 2) + (b % 2)) % 2) + 2 * XorBits(a \div 2, b \div 2, n - 1)

Xor8(a, b) == XorBits(a, b, 8)

Pow2(b) == CASE b = 0 -> 1 [] b = 1 -> 2 [] b = 2 -> 4 [] b = 3 -> 8
             [] b = 4 -> 16 [] b = 5 -> 32 [] b = 6 -> 64 [] b = 7 -> 128

FlipBit(bytes, i, b) == [bytes EXCEPT ![i] = Xor8(@, Pow2(b))]

Fill(n, b) == [i \in 1..n |-> b]

\* The element of a one-element set: The({e(x) : x \in {v}}) is e(v) with v
\* worked out once.
The(S) == CHOOSE x \in S : TRUE

Prefix(bytes, n) == SubSeq(bytes, 1, n)

Ascii(str) ==
    CASE str = "lol" -> <<108, 111, 108>>
      [] str = "wat" -> <<119, 97, 116>>
      [] str = "foo" -> <<102, 111, 111>>
      [] str = "bar" -> <<98, 97, 114>>
      [] str = "a" -> <<97>>
      [] str = "b" -> <<98>>

----------------------------------------------------------------------------
(* Option and Result.                                                      *)

None == <<>>
Some(v) == <<v>>

Ok(v) == [kind |-> "Ok", val |-> v, err |-> ""]
Err(e) == [kind |-> "Err", val |-> <<>>, err |-> e]
Panic == [kind |-> "Panic", val |-> <<>>, err |-> ""]

ValidationError == Err("ValidationError")
InternalError == Err("InternalError")

----------------------------------------------------------------------------
(* Session: HashMap<String, Vec<u8>>.  A map is a function whose domain is  *)
(* the set of occupied keys; keys and values are byte strings.             *)

new == <<>>

get_bytes(s, key) == IF key \in DOMAIN s THEN Some(s[key]) ELSE None

insert_bytes_lost(s, key, bytes) ==
    IF key \in DOMAIN s THEN s
    ELSE [k \in DOMAIN s \cup {key} |-> IF k = key THEN bytes ELSE s[k]]

insert_bytes(s, key, bytes) ==
    [k \in DOMAIN s \cup {key} |-> IF k = key THEN bytes ELSE s[k]]

remove_bytes(s, key) == [k \in DOMAIN s \ {key} |-> s[k]]

contains_key(s, key) == key \in DOMAIN s

clear(s) == [k \in {} |-> <<>>]

SessionTransport(expires, sess) == [expires |-> expires, session |-> sess]

----------------------------------------------------------------------------
(* bincode (Infinite) over SessionTransport.                               *)

U64(n) == [i \in 1..8 |->
              CASE i = 1 -> n % 256
                [] i = 2 -> (n \div 256) % 256
                [] i = 3 -> (n \div 65536) % 256
                [] OTHER -> 0]

RECURSIVE Digits(_)
Digits(n) == IF n < 10 THEN <<48 + n>> ELSE Digits(n \div 10) \o <<48 + (n % 10)>>

EncodeBytes(b) == U64(Len(b)) \o b

EncodeExpires(e) ==
    IF e = None THEN <<0>> ELSE <<1>> \o EncodeBytes(Digits(e[1]))

RECURSIVE EncodeEntries(_, _)
EncodeEntries(s, order) ==
    IF order = <<>> THEN <<>>
    ELSE EncodeBytes(Head(order)) \o EncodeBytes(s[Head(order)])
            \o EncodeEntries(s, Tail(order))

\* bincode::serialize(&session, Infinite): `order` is the order in which the
\* HashMap yields its entries.
bincode_serialize(t, order) ==
    EncodeExpires(t.expires) \o U64(Len(order)) \o EncodeEntries(t.session, order)

Orders(s) ==
    {o \in [1..Cardinality(DOMAIN s) -> DOMAIN s] :
        \A i, j \in DOMAIN o : i # j => o[i] # o[j]}

Fail == [ok |-> FALSE, val |-> <<>>, next |-> 0]
Read(v, next) == [ok |-> TRUE, val |-> v, next |-> next]

\* A u64 with a byte set above the low three exceeds every input of the
\* model; it reads as 2^24.
ReadU64(b, pos) ==
    IF pos + 7 > Len(b) THEN Fail
    ELSE IF \E i \in 3..7 : b[pos + i] # 0 THEN Read(16777216, pos + 8)
    ELSE Read(b[pos] + 256 * b[pos + 1] + 65536 * b[pos + 2], pos + 8)

ReadBytes(b, pos) ==
    The({ IF ~n.ok THEN Fail
          ELSE IF n.next + n.val - 1 > Len(b) THEN Fail
          ELSE Read(SubSeq(b, n.next, n.next + n.val - 1), n.next + n.val)
        : n \in {ReadU64(b, pos)} })

\* String: the bytes must be UTF-8; the model knows the one-byte code points.
ReadString(b, pos) ==
    The({ IF ~r.ok THEN Fail
          ELSE IF \E i \in DOMAIN r.val : r.val[i] > 127 THEN Fail
          ELSE r
        : r \in {ReadBytes(b, pos)} })

RECURSIVE Number(_)
Number(d) == IF d = <<>> THEN 0 ELSE 10 * Number(SubSeq(d, 1, Len(d) - 1)) + (d[Len(d)] - 48)

ReadExpires(b, pos) ==
    IF pos > Len(b) THEN Fail
    ELSE IF b[pos] = 0 THEN Read(None, pos + 1)
    ELSE IF b[pos] # 1 THEN Fail
    ELSE The({ IF ~r.ok THEN Fail
               ELSE IF r.val = <<>> \/ Len(r.val) > 9 THEN Fail
               ELSE IF \E i \in DOMAIN r.val : r.val[i] < 48 \/ r.val[i] > 57 THEN Fail
               ELSE Read(Some(Number(r.val)), r.next)
             : r \in {ReadString(b, pos + 1)} })

RECURSIVE ReadEntries(_, _, _, _)
ReadEntries(b, pos, n, acc) ==
    IF n = 0 THEN Read(acc, pos)
    ELSE The({ IF ~k.ok THEN Fail
               ELSE The({ IF ~v.ok THEN Fail
                          ELSE ReadEntries(b, v.next, n - 1, insert_bytes(acc, k.val, v.val))
                        : v \in {ReadBytes(b, k.next)} })
             : k \in {ReadString(b, pos)} })

\* bincode::deserialize(bytes): Ok(SessionTransport) or an error; bytes left
\* over after the value are not looked at.
bincode_deserialize(b) ==
    The({ IF ~e.ok THEN Fail
          ELSE The({ IF ~n.ok THEN Fail
                     ELSE The({ IF ~m.ok THEN Fail
                                ELSE Read(SessionTransport(e.val, m.val), m.next)
                              : m \in {ReadEntries(b, n.next, n.val, new)} })
                   : n \in {ReadU64(b, e.next)} })
        : e \in {ReadExpires(b, 1)} })

----------------------------------------------------------------------------
(* ChaCha20Poly1305::new(&self.aead_key, nonce, &[]) and its encrypt and    *)
(* decrypt.                                                                *)

ModP(x) == x % 32749

RECURSIVE SumRange(_, _, _)
SumRange(s, lo, hi) ==
    IF lo > hi THEN 0
    ELSE IF lo = hi THEN s[lo]
    ELSE SumRange(s, lo, (lo + hi) \div 2) + SumRange(s, ((lo + hi) \div 2) + 1, hi)

Sum(s) == SumRange(s, 1, Len(s))

\* The keystream byte at offset i.
Stream(key, nonce, i) ==
    (key[((7 * i) % KEY_LEN) + 1] + (3 * nonce[(i % NONCE_LEN) + 1]) + (11 * i) + Sum(nonce)) % 256

\* The one-time MAC key (r, s) of this (key, nonce); r is never 0.
MacR(key, nonce) == 1 + (ModP((Sum(key) * 17) + (Sum(nonce) * 257) + 12345) % 32748)
MacS(key, nonce) ==
    [j \in 1..TAG_LEN |-> (key[j] + (5 * nonce[((j - 1) % NONCE_LEN) + 1]) + j) % 256]

\* <<h, p>> for data[lo..hi]: h is the Horner evaluation
\*   (...((data[lo] + 1) * r + data[lo + 1] + 1) * r ... + data[hi] + 1) * r
\* and p is r to the number of bytes, both in the field; the halves of a
\* range combine as h = hL * pR + hR, p = pL * pR.
RECURSIVE PolyRange(_, _, _, _)
PolyRange(data, lo, hi, r) ==
    IF lo = hi THEN <<ModP((data[lo] + 1) * r), r>>
    ELSE The({ <<ModP(ModP(L[1] * R[2]) + R[1]), ModP(L[2] * R[2])>>
             : L \in {PolyRange(data, lo, (lo + hi) \div 2, r)},
               R \in {PolyRange(data, ((lo + hi) \div 2) + 1, hi, r)} })

Poly(data, r) == IF data = <<>> THEN 0 ELSE PolyRange(data, 1, Len(data), r)[1]

MacH(data, r) == ModP((Poly(data, r) + Len(data)) * r)

Mac(key, nonce, ciphertext) ==
    The({ [j \in 1..TAG_LEN |->
              CASE j = 1 -> (s[j] + (h % 256)) % 256
                [] j = 2 -> (s[j] + (h \div 256)) % 256
                [] OTHER -> s[j]]
        : h \in {MacH(ciphertext, MacR(key, nonce))}, s \in {MacS(key, nonce)} })

ApplyStream(key, nonce, data) ==
    [i \in 1..Len(data) |-> Xor8(data[i], Stream(key, nonce, i))]

\* aead.encrypt(&plaintext, &mut ciphertext, &mut tag)
encrypt(key, nonce, plaintext) ==
    The({ [ciphertext |-> c, tag |-> Mac(key, nonce, c)]
        : c \in {ApplyStream(key, nonce, plaintext)} })

\* aead.decrypt(&ciphertext, &mut plaintext, &tag): true and the plaintext
\* when the tag authenticates, false otherwise.
decrypt(key, nonce, ciphertext, tag) ==
    IF Mac(key, nonce, ciphertext) = tag
    THEN [ok |-> TRUE, plaintext |-> ApplyStream(key, nonce, ciphertext)]
    ELSE [ok |-> FALSE, plaintext |-> Fill(Len(ciphertext), 0)]

----------------------------------------------------------------------------
(* ChaCha20Poly1305SessionManager.                                         *)

\* tests: const KEY = *b"01234567012345670123456701234567"
TestKey == [i \in 1..KEY_LEN |-> 48 + ((i - 1) % 8)]
OtherKey == [i \in 1..KEY_LEN |-> (37 * i) % 256]
Keys == {TestKey, OtherKey}

\* from_key(aead_key): the manager holds the key it is given.
from_key(key) == key

\* What SystemRandom::fill may do with a buffer of `len` zero bytes: fail and
\* leave it, or fill it with one of `values`.
RngOutcomes(len, values) ==
    {[ok |-> FALSE, bytes |-> Fill(len, 0)]} \cup {[ok |-> TRUE, bytes |-> v] : v \in values}

NonceValue(n) == [i \in 1..NONCE_LEN |-> (n * (16 + (29 * i))) % 256]
PaddingValue(n) == [i \in 1..PADDING_LEN |-> (n * (200 + (7 * i))) % 256]
Nonces == {NonceValue(n) : n \in 1..NumNonces}
Paddings == {PaddingValue(n) : n \in 1..NumPaddings}
NonceDraws == RngOutcomes(NONCE_LEN, Nonces)
PaddingDraws == RngOutcomes(PADDING_LEN, Paddings)

random_bytes_swallow(r) == Ok(r.bytes)

random_bytes(r) == IF r.ok THEN Ok(r.bytes) ELSE InternalError

TooShort_lt(bytes) == Len(bytes) < MIN_LEN

TooShort_never(bytes) == FALSE

TooShort(bytes) == Len(bytes) <= MIN_LEN

SplitNonce(bytes) == [i \in 1..NONCE_LEN |-> bytes[i]]

SplitTag(bytes) == [i \in 1..TAG_LEN |-> bytes[i + NONCE_LEN]]

SplitCiphertext(bytes) == [i \in 1..(Len(bytes) - HEADER_LEN) |-> bytes[i + HEADER_LEN]]

Authenticated_always(d) == TRUE

Authenticated(d) == d.ok

StripPadding_short(plaintext) == SubSeq(plaintext, PADDING_LEN, Len(plaintext))

StripPadding(plaintext) == SubSeq(plaintext, PADDING_LEN + 1, Len(plaintext))

\* .unwrap() of bincode's Result
Unwrap(r) == The({ IF x.ok THEN Ok(x.val) ELSE Panic : x \in {r} })

\* deserialize(&self, bytes): the Result, or Panic where the code panics,
\* and whether aead.decrypt was called.
deserialize(key, bytes) ==
    IF TooShort(bytes) THEN [result |-> ValidationError, aead |-> FALSE]
    ELSE IF Len(bytes) < HEADER_LEN THEN [result |-> Panic, aead |-> FALSE]
    ELSE The({ IF ~Authenticated(d) THEN [result |-> ValidationError, aead |-> TRUE]
               ELSE IF Len(d.plaintext) < PADDING_LEN THEN [result |-> Panic, aead |-> TRUE]
               ELSE [result |-> Unwrap(bincode_deserialize(StripPadding(d.plaintext))),
                     aead |-> TRUE]
             : d \in {decrypt(key, SplitNonce(bytes), SplitCiphertext(bytes),
                               SplitTag(bytes))} })

PadPlaintext(padding, session_bytes) ==
    [i \in 1..(Len(session_bytes) + PADDING_LEN) |->
        IF i <= PADDING_LEN THEN padding[i] ELSE session_bytes[i - PADDING_LEN]]

Assemble_swapped(nonce, tag, ciphertext) ==
    [i \in 1..(Len(ciphertext) + HEADER_LEN) |->
        IF i <= TAG_LEN THEN tag[i]
        ELSE IF i <= HEADER_LEN THEN nonce[i - TAG_LEN]
        ELSE ciphertext[i - HEADER_LEN]]

Assemble(nonce, tag, ciphertext) ==
    [i \in 1..(Len(ciphertext) + HEADER_LEN) |->
        IF i <= NONCE_LEN THEN nonce[i]
        ELSE IF i <= HEADER_LEN THEN tag[i - NONCE_LEN]
        ELSE ciphertext[i - HEADER_LEN]]

\* serialize(&self, session): rn and rp are what the randomness source does
\* with the nonce and the padding buffers, order the HashMap's iteration
\* order.
serialize(key, t, order, rn, rp) ==
    The({ IF nonce.kind = "Err" THEN [result |-> nonce, aead |-> FALSE]
          ELSE The({ IF padding.kind = "Err" THEN [result |-> padding, aead |-> FALSE]
                     ELSE The({ [result |-> Ok(Assemble(nonce.val, sealed.tag,
                                                        sealed.ciphertext)),
                                 aead |-> TRUE]
                              : sealed \in {encrypt(key, nonce.val,
                                                    PadPlaintext(padding.val, session_bytes))} })
                   : session_bytes \in {bincode_serialize(t, order)},
                     padding \in {random_bytes(rp)} })
        : nonce \in {random_bytes(rn)} })

is_encrypted == TRUE

----------------------------------------------------------------------------
(* The inputs of the model.                                                *)

Sessions ==
    { new,
      insert_bytes(new, Ascii("lol"), Ascii("wat")),
      insert_bytes(insert_bytes(new, Ascii("a"), <<>>), Ascii("b"), <<0, 255>>) }

Expiries == {None, Some(42)}

Transports == {SessionTransport(e, s) : e \in Expiries, s \in Sessions}

\* Plaintexts a holder of the key can seal that are not the encoding of a
\* SessionTransport, and two that are (with bytes left over, with a key twice).
Malformed ==
    { <<0>>,
      <<2>>,
      <<1>> \o EncodeBytes(<<120>>),
      <<0>> \o U64(1) \o EncodeBytes(<<200>>) \o EncodeBytes(<<>>),
      <<0, 0, 0, 0, 0, 1, 0, 0, 0>> }

Readable ==
    { <<0>> \o U64(0) \o <<9, 9>>,
      <<0>> \o U64(2) \o EncodeBytes(<<97>>) \o EncodeBytes(<<1>>)
            \o EncodeBytes(<<97>>) \o EncodeBytes(<<2>>) }

FillBytes == {0, 255}

----------------------------------------------------------------------------
(* One caller at a time: Spec.                                             *)

NoResult == [kind |-> "", val |-> <<>>, err |-> ""]

Idle == [op |-> "idle", src |-> "", transport |-> <<>>, order |-> <<>>,
         rng |-> <<>>, input |-> <<>>, at |-> <<>>, result |-> NoResult, aead |-> FALSE]

NoCookie == [blob |-> <<>>, transport |-> <<>>, order |-> <<>>, nonce |-> <<>>, padding |-> <<>>]

\* A caller's frame: where it is in its call, the arguments, the local
\* buffers (nonce, tag, padding, session_bytes, ciphertext) and the result.
NoFrame == [pc |-> "idle", op |-> "", transport |-> <<>>, order |-> <<>>, input |-> <<>>,
            rn |-> <<>>, rp |-> <<>>, nonce |-> <<>>, tag |-> <<>>, padding |-> <<>>,
            session_bytes |-> <<>>, ciphertext |-> <<>>, result |-> NoResult]

Callers == 1..NumCallers

NoCalls == [c \in Callers |-> NoFrame]

Init ==
    /\ aead_key \in {from_key(k) : k \in Keys}
    /\ cookie = NoCookie
    /\ last = Idle
    /\ calls = NoCalls
    /\ session = new
    /\ log = <<>>
    /\ ret = None

Decoded(src, bytes, at) ==
    The({ [Idle EXCEPT !.op = "deserialize", !.src = src, !.input = bytes, !.at = at,
                       !.result = r.result, !.aead = r.aead]
        : r \in {deserialize(aead_key, bytes)} })

Serialize(t, order, rn, rp) ==
    /\ last.op = "idle"
    /\ \E r \in {serialize(aead_key, t, order, rn, rp)} :
       /\ last' = [Idle EXCEPT !.op = "serialize", !.transport = t, !.order = order,
                               !.rng = <<rn.ok, rp.ok>>, !.result = r.result,
                               !.aead = r.aead]
       /\ cookie' = IF r.result.kind = "Ok"
                    THEN [blob |-> r.result.val, transport |-> t, order |-> order,
                          nonce |-> rn.bytes, padding |-> rp.bytes]
                    ELSE cookie
    /\ UNCHANGED <<aead_key, calls, session, log, ret>>

DeserializeCookie ==
    /\ last.op = "idle"
    /\ cookie.blob # <<>>
    /\ last' = Decoded("cookie", cookie.blob, <<>>)
    /\ UNCHANGED <<aead_key, cookie, calls, session, log, ret>>

DeserializeTampered(i, b) ==
    /\ last.op = "idle"
    /\ cookie.blob # <<>>
    /\ i \in (NONCE_LEN + 1)..Len(cookie.blob)
    /\ last' = Decoded("tampered", FlipBit(cookie.blob, i, b), <<i, b>>)
    /\ UNCHANGED <<aead_key, cookie, calls, session, log, ret>>

DeserializeTruncated(n) ==
    /\ last.op = "idle"
    /\ cookie.blob # <<>>
    /\ n \in 0..(Len(cookie.blob) - 1)
    /\ last' = Decoded("truncated", Prefix(cookie.blob, n), <<n>>)
    /\ UNCHANGED <<aead_key, cookie, calls, session, log, ret>>

DeserializeArbitrary(n, b) ==
    /\ last.op = "idle"
    /\ last' = Decoded("arbitrary", Fill(n, b), <<n, b>>)
    /\ UNCHANGED <<aead_key, cookie, calls, session, log, ret>>

DeserializeSealed(nonce, padding, body) ==
    /\ last.op = "idle"
    /\ \E sealed \in {encrypt(aead_key, nonce, PadPlaintext(padding, body))} :
       last' = Decoded("sealed", Assemble(nonce, sealed.tag, sealed.ciphertext), body)
    /\ UNCHANGED <<aead_key, cookie, calls, session, log, ret>>

Return ==
    /\ last.op # "idle"
    /\ last' = Idle
    /\ UNCHANGED <<aead_key, cookie, calls, session, log, ret>>

Next ==
    \/ \E t \in Transports, rn \in NonceDraws, rp \in PaddingDraws :
          \E order \in Orders(t.session) : Serialize(t, order, rn, rp)
    \/ DeserializeCookie
    \/ \E i \in 1..200, b \in 0..7 : DeserializeTampered(i, b)
    \/ \E n \in 0..200 : DeserializeTruncated(n)
    \/ \E n \in 0..MaxArbitrary, b \in FillBytes : DeserializeArbitrary(n, b)
    \/ \E nonce \in Nonces, padding \in Paddings, body \in Malformed \cup Readable :
          DeserializeSealed(nonce, padding, body)
    \/ Return

Spec == Init /\ [][Next]_vars

----------------------------------------------------------------------------
(* Properties of serialize and deserialize, checked under Spec.            *)

IsValidationError(r) == r.kind = "Err" /\ r.err = "ValidationError"
IsInternalError(r) == r.kind = "Err" /\ r.err = "InternalError"

\* C1: deserialize of the blob serialize returned, on the same manager, is Ok
\* with a SessionTransport equal to the one serialized, for every transport,
\* key, nonce, padding and HashMap order.
RoundTrip ==
    (last.op = "deserialize" /\ last.src = "cookie")
        => /\ last.result.kind = "Ok"
           /\ last.result.val = cookie.transport

RoundTripWitness ==
    /\ last.op = "deserialize"
    /\ last.src = "cookie"
    /\ last.result.kind = "Ok"
    /\ cookie.transport.expires = Some(42)
    /\ Cardinality(DOMAIN cookie.transport.session) = 2
    /\ last.result.val.session[Ascii("b")] = <<0, 255>>

\* C2: a blob from serialize with one bit changed in the tag (bytes 8..24) or
\* the ciphertext (bytes 24..end) makes deserialize return
\* Err(ValidationError): never Ok, never a panic.
TamperDetected ==
    (last.op = "deserialize" /\ last.src = "tampered")
        => /\ last.at[1] \in (NONCE_LEN + 1)..Len(cookie.blob)
           /\ IsValidationError(last.result)
           /\ last.result.val = <<>>

TamperDetectedWitness ==
    /\ last.op = "deserialize"
    /\ last.src = "tampered"
    /\ last.at = <<Len(cookie.blob), 7>>
    /\ last.input # cookie.blob
    /\ last.aead
    /\ IsValidationError(last.result)

\* C3 (as claimed): an input longer than 40 bytes whose tag authenticates but
\* whose plaintext after the padding is not a SessionTransport gets an error
\* value back from deserialize, never a panic.
MalformedIsRecoverable ==
    (last.op = "deserialize" /\ last.src = "sealed" /\ last.at \in Malformed)
        => last.result.kind = "Err"

\* C4: an input of 0 to 40 bytes is refused with Err(ValidationError) before
\* aead.decrypt is called; an input of 41 bytes or more always reaches it.
ShortRejected ==
    last.op = "deserialize"
        => /\ Len(last.input) <= 40 => (IsValidationError(last.result) /\ ~last.aead)
           /\ Len(last.input) >= 41 => last.aead

ShortRejectedWitness ==
    /\ last.op = "deserialize"
    /\ last.src = "arbitrary"
    /\ Len(last.input) = 40
    /\ IsValidationError(last.result)
    /\ ~last.aead

\* C5: every strict prefix of a blob from serialize is refused with
\* Err(ValidationError) and no panic: by the length check up to 40 bytes, by
\* the tag from 41 bytes on.
TruncationRejected ==
    (last.op = "deserialize" /\ last.src = "truncated")
        => /\ Len(last.input) < Len(cookie.blob)
           /\ IsValidationError(last.result)
           /\ last.aead <=> (Len(last.input) > 40)

TruncationRejectedWitness ==
    /\ last.op = "deserialize"
    /\ last.src = "truncated"
    /\ Len(last.input) = Len(cookie.blob) - 1
    /\ Len(last.input) > 41
    /\ last.aead
    /\ IsValidationError(last.result)

\* C7: serialize returns Err(InternalError) exactly when the randomness source
\* fails on the nonce or on the padding; with both it returns Ok, and on a
\* failure it returns no bytes and does not run the AEAD.
SerializeFailure ==
    last.op = "serialize"
        => /\ IsInternalError(last.result) <=> (~last.rng[1] \/ ~last.rng[2])
           /\ (last.rng[1] /\ last.rng[2]) => (last.result.kind = "Ok" /\ last.aead)
           /\ (~last.rng[1] \/ ~last.rng[2]) => (last.result.val = <<>> /\ ~last.aead)

SerializeFailureWitness ==
    /\ last.op = "serialize"
    /\ last.rng = <<TRUE, FALSE>>
    /\ IsInternalError(last.result)
    /\ ~last.aead

\* C10: an Ok output of serialize is the nonce (bytes 0..8), the 16-byte tag
\* (bytes 8..24) and the ciphertext (bytes 24..N), the ciphertext as long as
\* 16 padding bytes plus the serialized SessionTransport, so N = 40 + that
\* length and N > 40; deserialize splits at the same offsets and drops the
\* first 16 plaintext bytes.
WireLayout ==
    (last.op = "serialize" /\ last.result.kind = "Ok")
        => \A blob \in {last.result.val},
              session_bytes \in {bincode_serialize(last.transport, last.order)} :
           \A ciphertext \in {SubSeq(blob, 25, Len(blob))} :
           \A plaintext \in {ApplyStream(aead_key, cookie.nonce, ciphertext)} :
               /\ cookie.blob = blob
               /\ SubSeq(blob, 1, 8) = cookie.nonce
               /\ SubSeq(blob, 9, 24) = Mac(aead_key, cookie.nonce, ciphertext)
               /\ plaintext = cookie.padding \o session_bytes
               /\ Len(ciphertext) = 16 + Len(session_bytes)
               /\ Len(blob) = 40 + Len(session_bytes)
               /\ Len(blob) > 40
               /\ SplitNonce(blob) = SubSeq(blob, 1, 8)
               /\ SplitTag(blob) = SubSeq(blob, 9, 24)
               /\ SplitCiphertext(blob) = ciphertext
               /\ StripPadding(plaintext) = session_bytes

WireLayoutWitness ==
    /\ last.op = "serialize"
    /\ last.result.kind = "Ok"
    /\ Len(last.result.val) = 95
    /\ last.transport.expires = Some(42)
    /\ SubSeq(last.result.val, 1, 8) = NonceValue(2)

----------------------------------------------------------------------------
(* A Session under its operations: SpecSession.                            *)

SessionKeys == {Ascii("foo"), Ascii("wat")}
SessionValues == {Ascii("bar"), Ascii("lol")}

Applied(op, key, val) == [op |-> op, key |-> key, val |-> val]

InsertBytes(key, bytes) ==
    /\ Len(log) < MaxOps
    /\ ret' = get_bytes(session, key)
    /\ session' = insert_bytes(session, key, bytes)
    /\ log' = Append(log, Applied("insert", key, bytes))
    /\ UNCHANGED <<aead_key, cookie, last, calls>>

RemoveBytes(key) ==
    /\ Len(log) < MaxOps
    /\ ret' = get_bytes(session, key)
    /\ session' = remove_bytes(session, key)
    /\ log' = Append(log, Applied("remove", key, <<>>))
    /\ UNCHANGED <<aead_key, cookie, last, calls>>

Clear ==
    /\ Len(log) < MaxOps
    /\ ret' = None
    /\ session' = clear(session)
    /\ log' = Append(log, Applied("clear", <<>>, <<>>))
    /\ UNCHANGED <<aead_key, cookie, last, calls>>

NextSession ==
    \/ \E key \in SessionKeys, bytes \in SessionValues : InsertBytes(key, bytes)
    \/ \E key \in SessionKeys : RemoveBytes(key)
    \/ Clear

SpecSession == Init /\ [][NextSession]_vars

\* What the first n operations of the log leave at key: the bytes of the most
\* recent insert at key that no later remove of key or clear follows.
RECURSIVE Latest(_, _, _)
Latest(lg, n, key) ==
    IF n = 0 THEN None
    ELSE IF lg[n].op = "clear" THEN None
    ELSE IF lg[n].key # key THEN Latest(lg, n - 1, key)
    ELSE IF lg[n].op = "insert" THEN Some(lg[n].val)
    ELSE None

\* C9: get_bytes(k) is the bytes of the most recent insert_bytes(k, _) not
\* followed by remove_bytes(k) or clear, else None; contains_key(k) is true
\* exactly when get_bytes(k) is not None; insert_bytes and remove_bytes return
\* what k held before; the other keys keep their values.
SessionSemantics ==
    /\ \A key \in SessionKeys :
          /\ get_bytes(session, key) = Latest(log, Len(log), key)
          /\ contains_key(session, key) <=> (get_bytes(session, key) # None)
    /\ DOMAIN session \subseteq SessionKeys
    /\ Len(log) > 0 =>
          LET e == log[Len(log)] IN
          /\ e.op \in {"insert", "remove"} => ret = Latest(log, Len(log) - 1, e.key)
          /\ e.op = "clear" => DOMAIN session = {}

SessionSemanticsWitness ==
    /\ Len(log) = 3
    /\ log[1] = Applied("insert", Ascii("foo"), Ascii("bar"))
    /\ log[2] = Applied("insert", Ascii("wat"), Ascii("lol"))
    /\ log[3] = Applied("insert", Ascii("foo"), Ascii("lol"))
    /\ ret = Some(Ascii("bar"))
    /\ get_bytes(session, Ascii("foo")) = Some(Ascii("lol"))
    /\ get_bytes(session, Ascii("wat")) = Some(Ascii("lol"))

----------------------------------------------------------------------------
(* Callers sharing one manager without a lock: SpecShared.  A call is cut  *)
(* where it touches what the callers share, the randomness source and the  *)
(* key; what lies between works on the buffers of the call's own frame.    *)

SharedTransports ==
    { SessionTransport(None, new),
      SessionTransport(None, insert_bytes(new, Ascii("lol"), Ascii("wat"))) }

Drawn(bytes) == [ok |-> TRUE, bytes |-> bytes]

\* For each key: a blob serialize returns under it, the blob with one bit
\* changed, and an input that is too short.
SharedBlob(key) ==
    serialize(key, SessionTransport(None, new), <<>>,
              Drawn(NonceValue(1)), Drawn(PaddingValue(1))).result.val

SharedInputsOf ==
    [key \in Keys |->
        {SharedBlob(key), FlipBit(SharedBlob(key), HEADER_LEN + 1, 0), Fill(MIN_LEN, 0)}]

SharedInputs == SharedInputsOf[aead_key]

SharedPaddingDraws == RngOutcomes(PADDING_LEN, {PaddingValue(2)})

\* The buffers a call works on are the locals of its own invocation.
\* One set of buffers kept in the manager: callers at the same point of a
\* call work on the buffers of the first of them.
Locals_shared(c) ==
    calls[CHOOSE d \in Callers :
            /\ calls[d].pc = calls[c].pc
            /\ \A e \in Callers : calls[e].pc = calls[c].pc => d <= e]

Locals(c) == calls[c]

Finish(c, result) == calls' = [calls EXCEPT ![c].pc = "done", ![c].result = result]

CallSerialize(c, t, order) ==
    /\ calls[c].pc = "idle"
    /\ calls' = [calls EXCEPT ![c] = [NoFrame EXCEPT !.pc = "nonce", !.op = "serialize",
                                                     !.transport = t, !.order = order]]
    /\ UNCHANGED <<aead_key, cookie, last, session, log, ret>>

\* let mut nonce = [0; 8]; self.random_bytes(&mut nonce)?;
SerializeNonce(c, rn) ==
    /\ calls[c].pc = "nonce"
    /\ \E nonce \in {random_bytes(rn)} :
       IF nonce.kind = "Err"
       THEN calls' = [calls EXCEPT ![c].pc = "done", ![c].rn = rn, ![c].result = nonce]
       ELSE calls' = [calls EXCEPT ![c].pc = "padding", ![c].rn = rn, ![c].nonce = nonce.val]
    /\ UNCHANGED <<aead_key, cookie, last, session, log, ret>>

\* let session_bytes = bincode::serialize(..); self.random_bytes(&mut padding)?;
SerializePadding(c, rp) ==
    /\ calls[c].pc = "padding"
    /\ \E session_bytes \in {bincode_serialize(calls[c].transport, calls[c].order)},
          padding \in {random_bytes(rp)} :
           IF padding.kind = "Err"
           THEN calls' = [calls EXCEPT ![c].pc = "done", ![c].rp = rp, ![c].result = padding]
           ELSE calls' = [calls EXCEPT ![c].pc = "encrypt", ![c].rp = rp,
                                       ![c].session_bytes = session_bytes,
                                       ![c].padding = padding.val]
    /\ UNCHANGED <<aead_key, cookie, last, session, log, ret>>

\* the plaintext, self.aead(&nonce).encrypt(..), the transport vector, Ok
SerializeEncrypt(c) ==
    /\ calls[c].pc = "encrypt"
    /\ \E f \in {Locals(c)} :
       \E sealed \in {encrypt(aead_key, f.nonce, PadPlaintext(f.padding, f.session_bytes))} :
          Finish(c, Ok(Assemble(f.nonce, sealed.tag, sealed.ciphertext)))
    /\ UNCHANGED <<aead_key, cookie, last, session, log, ret>>

CallDeserialize(c, bytes) ==
    /\ calls[c].pc = "idle"
    /\ calls' = [calls EXCEPT ![c] = [NoFrame EXCEPT !.pc = "split", !.op = "deserialize",
                                                     !.input = bytes]]
    /\ UNCHANGED <<aead_key, cookie, last, session, log, ret>>

\* the length check and the copies into nonce, tag and ciphertext
DeserializeSplit(c) ==
    /\ calls[c].pc = "split"
    /\ \E bytes \in {calls[c].input} :
       IF TooShort(bytes) THEN Finish(c, ValidationError)
       ELSE IF Len(bytes) < HEADER_LEN THEN Finish(c, Panic)
       ELSE calls' = [calls EXCEPT ![c].pc = "decrypt",
                                   ![c].nonce = SplitNonce(bytes),
                                   ![c].tag = SplitTag(bytes),
                                   ![c].ciphertext = SplitCiphertext(bytes)]
    /\ UNCHANGED <<aead_key, cookie, last, session, log, ret>>

\* self.aead(&nonce).decrypt(..) and bincode::deserialize(..).unwrap()
DeserializeDecrypt(c) ==
    /\ calls[c].pc = "decrypt"
    /\ \E f \in {Locals(c)} :
       \E d \in {decrypt(aead_key, f.nonce, f.ciphertext, f.tag)} :
           IF ~Authenticated(d) THEN Finish(c, ValidationError)
           ELSE IF Len(d.plaintext) < PADDING_LEN THEN Finish(c, Panic)
           ELSE Finish(c, Unwrap(bincode_deserialize(StripPadding(d.plaintext))))
    /\ UNCHANGED <<aead_key, cookie, last, session, log, ret>>

ReturnCall(c) ==
    /\ calls[c].pc = "done"
    /\ calls' = [calls EXCEPT ![c] = NoFrame]
    /\ UNCHANGED <<aead_key, cookie, last, session, log, ret>>

NextShared ==
    \/ \E c \in Callers, t \in SharedTransports :
          \E order \in Orders(t.session) : CallSerialize(c, t, order)
    \/ \E c \in Callers, rn \in NonceDraws : SerializeNonce(c, rn)
    \/ \E c \in Callers, rp \in SharedPaddingDraws : SerializePadding(c, rp)
    \/ \E c \in Callers : SerializeEncrypt(c)
    \/ \E c \in Callers, bytes \in SharedInputs : CallDeserialize(c, bytes)
    \/ \E c \in Callers : DeserializeSplit(c)
    \/ \E c \in Callers : DeserializeDecrypt(c)
    \/ \E c \in Callers : ReturnCall(c)

SpecShared == Init /\ [][NextShared]_vars

\* What the call of frame f returns when it runs alone on a manager with key.
Alone(key, f) ==
    IF f.op = "serialize"
    THEN serialize(key, f.transport, f.order, f.rn,
                   IF f.rp = <<>> THEN Drawn(Fill(PADDING_LEN, 0)) ELSE f.rp).result
    ELSE deserialize(key, f.input).result

SameResult(a, b) ==
    /\ a.kind = b.kind
    /\ a.err = b.err
    /\ a.val = b.val

\* C8: under every interleaving of serialize and deserialize calls on one
\* shared manager the key is never modified, and every call returns what it
\* returns when run alone with the same key, input and random bytes.
SharedIsolation ==
    /\ [](\A c \in Callers :
            calls[c].pc = "done" => SameResult(calls[c].result, Alone(aead_key, calls[c])))
    /\ [][aead_key' = aead_key]_vars

SharedIsolationWitness ==
    /\ calls[1].pc = "done"
    /\ calls[1].op = "serialize"
    /\ calls[1].result.kind = "Ok"
    /\ calls[2].pc = "encrypt"
    /\ calls[2].nonce # calls[1].nonce
    /\ calls[2].transport # calls[1].transport

\* C6 (as claimed): no two successful serialize calls on one manager use the
\* same nonce; the same SessionTransport serialized twice gives two blobs
\* whose first 8 bytes differ and whose ciphertexts differ.
NonceUnique ==
    \A c, d \in Callers :
        (/\ c # d
         /\ calls[c].pc = "done" /\ calls[c].op = "serialize" /\ calls[c].result.kind = "Ok"
         /\ calls[d].pc = "done" /\ calls[d].op = "serialize" /\ calls[d].result.kind = "Ok")
        => /\ calls[c].nonce # calls[d].nonce
           /\ SubSeq(calls[c].result.val, 1, 8) # SubSeq(calls[d].result.val, 1, 8)
           /\ calls[c].transport = calls[d].transport =>
                 SplitCiphertext(calls[c].result.val) # SplitCiphertext(calls[d].result.val)

=============================================================================
